---- MODULE Spec2Model ----
(***************************************************************************)
(* The Solar Calendar conversion engine (src/src/config/cognito.ts, lines  *)
(* 19-288): a perennial calendar of 12 months of 30 days, a 6-day week and *)
(* 5 or 6 intercalary Solstice days, counted from the epoch June 24, 1999. *)
(*                                                                         *)
(* A Gregorian Date is a record [day, hour]: `day` is the calendar date as *)
(* a whole number of calendar days from the epoch date (0 = June 24, 1999) *)
(* and `hour` the local time of day.  Time stamps (Date.getTime) are       *)
(* counted in hours instead of milliseconds.  The host's time zone decides *)
(* the time stamp of a local midnight; it is fixed for a whole behaviour.  *)
(***************************************************************************)
EXTENDS Integers, Sequences, FiniteSets, TLC

VARIABLES
    tz,         \* the host's time zone
    op,         \* the function or handler that ran last ("none" at the start)
    arg,        \* what it was called with
    ret,        \* what it returned
    pc,         \* where a conversion running step by step stands
    locals,     \* and the local variables of its loop
    now,        \* App: the wall clock, a Gregorian Date
    viewMonth,  \* App: useState viewMonth
    viewYear,   \* App: useState viewYear
    viewMode,   \* App: useState viewMode
    settings,   \* bot: the rows of server_settings, by guild_id
    runs,       \* bot: the sendDailyMessages calls in flight
    removed,    \* bot: guilds whose channel was removed and not set since
    birthdays,  \* bot: the rows of the birthdays table
    converter   \* DateConverter: its useState values, by name

walkVars == <<pc, locals>>

appVars == <<now, viewMonth, viewYear, viewMode>>

botVars == <<settings, runs, removed>>

vars == <<tz, op, arg, ret, walkVars, appVars, botVars, birthdays, converter>>

----------------------------------------------------------------------------
(* Bounds of the model *)

\* solar years of the inputs range over -MaxYear .. MaxYear
MaxYear == 6

\* the year starts converted to Gregorian dates range over
\* -MaxAlignYear .. MaxAlignYear
MaxAlignYear == 101

\* App: the years shown range over -MaxViewYear .. MaxViewYear
MaxViewYear == 3

\* App: the wall clock runs over the days 357 .. 357 + MaxAppDays after the
\* epoch: the last days of Month 12 of year 0 and the Solstice days after it
MaxAppDays == 6

\* Bot: at most MaxRuns calls of sendDailyMessages are in flight at once
MaxRuns == 2

\* DateConverter: the years typed in range over
\* -MaxConverterYear .. MaxConverterYear
MaxConverterYear == 2

----------------------------------------------------------------------------
(* Values *)

\* the null of `dayOfWeek: number | null`
NULL == -1

\* 1000 * 60 * 60 * 24 milliseconds, in hours
HOURS_PER_DAY == 24

\* The time zones of the host: without daylight saving time, with daylight
\* saving time in force on the epoch date (northern rules, e.g.
\* America/New_York) and with daylight saving time in force in the opposite
\* half of the year (southern rules, e.g. Australia/Sydney).
TimeZones == {"noDst", "dstNorth", "dstSouth"}

\* Times of day of the Date objects handed to the engine: local midnight,
\* noon (DateConverter) and late evening (new Date()).
Hours == {0, 12, 23}

Years == -MaxYear .. MaxYear

DayOffsets == -(MaxYear * 366) .. (MaxYear * 366)

\* JavaScript's %: the remainder takes the sign of the dividend
JsRem(a, n) == IF a >= 0 THEN a % n ELSE -((-a) % n)

\* Math.floor(a / n) and Math.ceil(a / n) for n > 0
MathFloorDiv(a, n) == a \div n

MathCeilDiv(a, n) == -((-a) \div n)

----------------------------------------------------------------------------
(* The host's clock *)

\* Whether the calendar date `day` lies in the half of the year opposite to
\* the epoch's (about November 11 to March 6; 1461 days are four Gregorian
\* years between 1901 and 2099).
OppositeSeason(day) == ((day % 1461) % 365) \in 140 .. 255

\* Hours the local clock is ahead of the zone's standard time on `day`
DstHours(zone, day) ==
    CASE zone = "noDst"    -> 0
      [] zone = "dstNorth" -> IF OppositeSeason(day) THEN 0 ELSE 1
      [] zone = "dstSouth" -> IF OppositeSeason(day) THEN 1 ELSE 0

\* new Date(y, m, d): local midnight of the calendar date
LocalMidnight(date) == [day |-> date.day, hour |-> 0]

\* Date.prototype.getTime, in hours, up to a constant of the zone
getTime(zone, date) == HOURS_PER_DAY * date.day + date.hour - DstHours(zone, date.day)

\* const EPOCH_GREGORIAN = new Date(1999, 5, 24)
EPOCH_GREGORIAN == [day |-> 0, hour |-> 0]

----------------------------------------------------------------------------
(* The engine *)

\* Date.prototype.getFullYear, getMonth (0 = January) and getDate of a Date:
\* the proleptic Gregorian calendar; the epoch date is day 10766 after
\* January 1, 1970, and 719468 days lie between March 1, 0000 and that day.
CivilDate(date) ==
    LET z    == date.day + 10766 + 719468
        era  == z \div 146097
        doe  == z - era * 146097
        yoe  == (doe - doe \div 1460 + doe \div 36524 - doe \div 146096) \div 365
        doy  == doe - (365 * yoe + yoe \div 4 - yoe \div 100)
        mp   == (5 * doy + 2) \div 153
        d    == doy - (153 * mp + 2) \div 5 + 1
        m    == IF mp < 10 THEN mp + 3 ELSE mp - 9
        y    == yoe + era * 400 + (IF m <= 2 THEN 1 ELSE 0)
    IN  [year |-> y, month |-> m - 1, date |-> d]

isSolarLeapYear_NonNegativeOnly(solarYear) ==
    solarYear >= 0 /\ JsRem(solarYear, 4) = 0

isSolarLeapYear(solarYear) ==
    LET mod == JsRem(JsRem(solarYear, 4) + 4, 4)
    IN  mod = 0

daysInSolarYear_Always365(solarYear) == 365

daysInSolarYear(solarYear) == IF isSolarLeapYear(solarYear) THEN 366 ELSE 365

solsticeDaysCount(solarYear) == IF isSolarLeapYear(solarYear) THEN 6 ELSE 5

\* gregorianToSolar, lines 86-94
daysSinceEpoch(zone, gregorianDate) ==
    LET epochTime  == getTime(zone, EPOCH_GREGORIAN)
        targetTime == getTime(zone, LocalMidnight(gregorianDate))
    IN  MathFloorDiv(targetTime - epochTime, HOURS_PER_DAY)

\* gregorianToSolar, lines 99-104: the walk forward from the epoch
RECURSIVE WalkForward_OffByOne(_, _)
WalkForward_OffByOne(year, remainingDays) ==
    IF remainingDays > daysInSolarYear(year)
    THEN WalkForward_OffByOne(year + 1, remainingDays - daysInSolarYear(year))
    ELSE [year |-> year, remainingDays |-> remainingDays]

RECURSIVE WalkForward(_, _)
WalkForward(year, remainingDays) ==
    IF remainingDays >= daysInSolarYear(year)
    THEN WalkForward(year + 1, remainingDays - daysInSolarYear(year))
    ELSE [year |-> year, remainingDays |-> remainingDays]

\* gregorianToSolar, lines 105-115: the walk backward from the epoch
RECURSIVE WalkBackward_DecrementFirst(_, _)
WalkBackward_DecrementFirst(year, remainingDays) ==
    IF remainingDays < 0
    THEN WalkBackward_DecrementFirst(year - 1, remainingDays + daysInSolarYear(year))
    ELSE [year |-> year, remainingDays |-> remainingDays]

RECURSIVE WalkBackward(_, _)
WalkBackward(year, remainingDays) ==
    IF remainingDays < 0
    THEN LET added == remainingDays + daysInSolarYear(year)
         IN  IF added < 0
             THEN WalkBackward(year - 1, added)
             ELSE WalkBackward(year, added)
    ELSE [year |-> year, remainingDays |-> remainingDays]

\* gregorianToSolar, lines 96-115
YearWalk(days) ==
    IF days >= 0 THEN WalkForward(0, days) ELSE WalkBackward(-1, days)

\* gregorianToSolar, lines 122-135
SolsticeResult_DayOfYear(year, dayOfYear, isLeapYear) ==
    [year |-> year, month |-> 0, day |-> dayOfYear, dayOfWeek |-> NULL,
     dayOfYear |-> dayOfYear, isSolsticeDay |-> TRUE,
     solsticeDay |-> dayOfYear, isLeapYear |-> isLeapYear]

SolsticeResult(year, dayOfYear, isLeapYear) ==
    LET solsticeDay == dayOfYear - 360
    IN  [year |-> year, month |-> 0, day |-> solsticeDay, dayOfWeek |-> NULL,
         dayOfYear |-> dayOfYear, isSolsticeDay |-> TRUE,
         solsticeDay |-> solsticeDay, isLeapYear |-> isLeapYear]

\* gregorianToSolar, lines 137-150
RegularResult_WeekdayFromDay(year, dayOfYear, isLeapYear) ==
    LET month == MathCeilDiv(dayOfYear, 30)
        day   == JsRem(dayOfYear - 1, 30) + 1
    IN  [year |-> year, month |-> month, day |-> day, dayOfWeek |-> JsRem(day, 6),
         dayOfYear |-> dayOfYear, isSolsticeDay |-> FALSE, isLeapYear |-> isLeapYear]

RegularResult_MonthFloor(year, dayOfYear, isLeapYear) ==
    LET month     == MathFloorDiv(dayOfYear, 30) + 1
        day       == JsRem(dayOfYear - 1, 30) + 1
        dayOfWeek == JsRem(day - 1, 6)
    IN  [year |-> year, month |-> month, day |-> day, dayOfWeek |-> dayOfWeek,
         dayOfYear |-> dayOfYear, isSolsticeDay |-> FALSE, isLeapYear |-> isLeapYear]

RegularResult_ContinuousWeek(year, dayOfYear, isLeapYear) ==
    LET month     == MathCeilDiv(dayOfYear, 30)
        day       == JsRem(dayOfYear - 1, 30) + 1
        dayOfWeek == (year * 5 + dayOfYear - 1) % 6
    IN  [year |-> year, month |-> month, day |-> day, dayOfWeek |-> dayOfWeek,
         dayOfYear |-> dayOfYear, isSolsticeDay |-> FALSE, isLeapYear |-> isLeapYear]

RegularResult(year, dayOfYear, isLeapYear) ==
    LET month     == MathCeilDiv(dayOfYear, 30)
        day       == JsRem(dayOfYear - 1, 30) + 1
        dayOfWeek == JsRem(day - 1, 6)
    IN  [year |-> year, month |-> month, day |-> day, dayOfWeek |-> dayOfWeek,
         dayOfYear |-> dayOfYear, isSolsticeDay |-> FALSE, isLeapYear |-> isLeapYear]

gregorianToSolar(zone, gregorianDate) ==
    LET walk       == YearWalk(daysSinceEpoch(zone, gregorianDate))
        year       == walk.year
        dayOfYear  == walk.remainingDays + 1
        isLeapYear == isSolarLeapYear(year)
    IN  IF dayOfYear > 360
        THEN SolsticeResult(year, dayOfYear, isLeapYear)
        ELSE RegularResult(year, dayOfYear, isLeapYear)

\* solarToGregorian, lines 165-173: the days from the epoch to the start of
\* the target year; `step` is the pair of y and totalDays after one iteration
RECURSIVE SumForward(_, _, _)
SumForward(y, year, totalDays) ==
    IF y < year
    THEN LET step == <<y + 1, totalDays + daysInSolarYear(y)>>
         IN  SumForward(step[1], year, step[2])
    ELSE totalDays

RECURSIVE SumBackward(_, _, _)
SumBackward(y, year, totalDays) ==
    IF y >= year
    THEN LET step == <<y - 1, totalDays - daysInSolarYear(y)>>
         IN  SumBackward(step[1], year, step[2])
    ELSE totalDays

DaysToYearStart(year) ==
    IF year >= 0 THEN SumForward(0, year, 0) ELSE SumBackward(-1, year, 0)

\* solarToGregorian, lines 176-181; `month || 1` reads 0 (and undefined) as 1
DaysWithinYear_MonthAsGiven(solarDate) ==
    IF solarDate.isSolsticeDay
    THEN 360 + solarDate.day
    ELSE (solarDate.month - 1) * 30 + solarDate.day

DaysWithinYear(solarDate) ==
    IF solarDate.isSolsticeDay
    THEN 360 + solarDate.day
    ELSE ((IF solarDate.month = 0 THEN 1 ELSE solarDate.month) - 1) * 30 + solarDate.day

\* Date.prototype.setDate(getDate() + n): calendar-day addition in local time
AddDays(date, n) == [date EXCEPT !.day = @ + n]

solarToGregorian(solarDate) ==
    LET totalDays == DaysToYearStart(solarDate.year) + DaysWithinYear(solarDate) - 1
    IN  AddDays(EPOCH_GREGORIAN, totalDays)

getMonthDays_ZeroBased(year, month) ==
    [i \in 1 .. 30 |->
        LET day == i - 1
        IN  [year |-> year, month |-> month, day |-> day,
             dayOfWeek |-> JsRem(day, 6), dayOfYear |-> (month - 1) * 30 + day,
             isSolsticeDay |-> FALSE, isLeapYear |-> isSolarLeapYear(year)]]

getMonthDays(year, month) ==
    LET isLeapYear == isSolarLeapYear(year)
    IN  [day \in 1 .. 30 |->
            LET dayOfYear == (month - 1) * 30 + day
                dayOfWeek == JsRem(day - 1, 6)
            IN  [year |-> year, month |-> month, day |-> day,
                 dayOfWeek |-> dayOfWeek, dayOfYear |-> dayOfYear,
                 isSolsticeDay |-> FALSE, isLeapYear |-> isLeapYear]]

getSolsticeDays_WithWeekday(year) ==
    LET isLeapYear == isSolarLeapYear(year)
        count      == IF isLeapYear THEN 6 ELSE 5
    IN  [i \in 1 .. count |->
            [year |-> year, month |-> 0, day |-> i, dayOfWeek |-> JsRem(i - 1, 6),
             dayOfYear |-> 360 + i, isSolsticeDay |-> TRUE, solsticeDay |-> i,
             isLeapYear |-> isLeapYear]]

getSolsticeDays_AlwaysFive(year) ==
    LET isLeapYear == isSolarLeapYear(year)
    IN  [i \in 1 .. 5 |->
            [year |-> year, month |-> 0, day |-> i, dayOfWeek |-> NULL,
             dayOfYear |-> 360 + i, isSolsticeDay |-> TRUE, solsticeDay |-> i,
             isLeapYear |-> isLeapYear]]

getSolsticeDays(year) ==
    LET isLeapYear == isSolarLeapYear(year)
        count      == IF isLeapYear THEN 6 ELSE 5
    IN  [i \in 1 .. count |->
            [year |-> year, month |-> 0, day |-> i, dayOfWeek |-> NULL,
             dayOfYear |-> 360 + i, isSolsticeDay |-> TRUE, solsticeDay |-> i,
             isLeapYear |-> isLeapYear]]

isSameSolarDay_IgnoringYear(a, b) ==
    IF a.isSolsticeDay # b.isSolsticeDay THEN FALSE
    ELSE IF a.isSolsticeDay THEN a.solsticeDay = b.solsticeDay
    ELSE a.month = b.month /\ a.day = b.day

isSameSolarDay(a, b) ==
    IF a.isSolsticeDay # b.isSolsticeDay THEN FALSE
    ELSE IF a.year # b.year THEN FALSE
    ELSE IF a.isSolsticeDay THEN a.solsticeDay = b.solsticeDay
    ELSE a.month = b.month /\ a.day = b.day

----------------------------------------------------------------------------
(* The bot's copy of the engine (discord-bot, solarCalendar) *)

\* const EPOCH_GREGORIAN = new Date(1999, 5, 24)
BOT_EPOCH_GREGORIAN == [day |-> 0, hour |-> 0]

botIsSolarLeapYear(solarYear) ==
    LET mod == JsRem(JsRem(solarYear, 4) + 4, 4)
    IN  mod = 0

botDaysInSolarYear(solarYear) == IF botIsSolarLeapYear(solarYear) THEN 366 ELSE 365

\* lines 255-259: the loop forward
RECURSIVE botWalkForward(_, _)
botWalkForward(year, remainingDays) ==
    IF remainingDays >= botDaysInSolarYear(year)
    THEN botWalkForward(year + 1, remainingDays - botDaysInSolarYear(year))
    ELSE [year |-> year, remainingDays |-> remainingDays]

RECURSIVE botWalkBackward_AlwaysDecrements(_, _)
botWalkBackward_AlwaysDecrements(year, remainingDays) ==
    IF remainingDays < 0
    THEN botWalkBackward_AlwaysDecrements(year - 1, remainingDays + botDaysInSolarYear(year))
    ELSE [year |-> year, remainingDays |-> remainingDays]

\* lines 260-269: the loop backward
RECURSIVE botWalkBackward(_, _)
botWalkBackward(year, remainingDays) ==
    IF remainingDays < 0
    THEN LET added == remainingDays + botDaysInSolarYear(year)
         IN  IF added < 0
             THEN botWalkBackward(year - 1, added)
             ELSE botWalkBackward(year, added)
    ELSE [year |-> year, remainingDays |-> remainingDays]

botGregorianToSolar(zone, gregorianDate) ==
    LET epochTime      == getTime(zone, BOT_EPOCH_GREGORIAN)
        targetTime     == getTime(zone, LocalMidnight(gregorianDate))
        daysSince      == MathFloorDiv(targetTime - epochTime, HOURS_PER_DAY)
        walk           == IF daysSince >= 0
                          THEN botWalkForward(0, daysSince)
                          ELSE botWalkBackward(-1, daysSince)
        year           == walk.year
        dayOfYear      == walk.remainingDays + 1
        isLeapYear     == botIsSolarLeapYear(year)
        solsticeDay    == dayOfYear - 360
        month          == MathCeilDiv(dayOfYear, 30)
        day            == JsRem(dayOfYear - 1, 30) + 1
        dayOfWeek      == JsRem(day - 1, 6)
    IN  IF dayOfYear > 360
        THEN [year |-> year, month |-> 0, day |-> solsticeDay, dayOfWeek |-> NULL,
              dayOfYear |-> dayOfYear, isSolsticeDay |-> TRUE,
              solsticeDay |-> solsticeDay, isLeapYear |-> isLeapYear]
        ELSE [year |-> year, month |-> month, day |-> day, dayOfWeek |-> dayOfWeek,
              dayOfYear |-> dayOfYear, isSolsticeDay |-> FALSE, isLeapYear |-> isLeapYear]

----------------------------------------------------------------------------
(* The bot's season display (bot index, getSeasonProgress) *)

\* 3 months of 30 days
SEASON_LENGTH == 90

Abs(n) == IF n < 0 THEN -n ELSE n

\* const markers, lines 529-534
markers ==
    << [name |-> "Fall Equinox",    dayOfYear |-> 90],
       [name |-> "Winter Solstice", dayOfYear |-> 180],
       [name |-> "Spring Equinox",  dayOfYear |-> 270],
       [name |-> "Summer Solstice", dayOfYear |-> 360] >>

\* lines 540-550: one iteration of the loop over the markers
MarkerStep(nearest, marker, dayOfYear) ==
    LET daysUntil == marker.dayOfYear - dayOfYear
    IN  IF Abs(daysUntil) < Abs(nearest.daysToMarker)
        THEN [nearestMarker |-> marker.name, daysToMarker |-> daysUntil,
              isPast |-> daysUntil < 0]
        ELSE nearest

\* lines 536-550: the loop; daysToMarker starts as Infinity, so that the
\* first marker is always taken
RECURSIVE MarkerLoop(_, _, _)
MarkerLoop(i, nearest, dayOfYear) ==
    IF i > Len(markers) THEN nearest
    ELSE MarkerLoop(i + 1, MarkerStep(nearest, markers[i], dayOfYear), dayOfYear)

NearestInYear(dayOfYear) ==
    LET first == [nearestMarker |-> markers[1].name,
                  daysToMarker  |-> markers[1].dayOfYear - dayOfYear,
                  isPast        |-> markers[1].dayOfYear - dayOfYear < 0]
    IN  MarkerLoop(2, first, dayOfYear)

\* lines 552-557: "also check summer solstice from previous year perspective"
SummerSolsticeCheck(nearest, dayOfYear) ==
    LET daysToSummerSolsticeNextYear == 360 - dayOfYear
    IN  IF daysToSummerSolsticeNextYear < Abs(nearest.daysToMarker)
        THEN [nearestMarker |-> "Summer Solstice",
              daysToMarker |-> daysToSummerSolsticeNextYear, isPast |-> FALSE]
        ELSE nearest

\* lines 499-520: the days into the season of the month
DaysIntoSeason(month, day) ==
    IF month <= 3 THEN (month - 1) * 30 + day
    ELSE IF month <= 6 THEN (month - 4) * 30 + day
    ELSE IF month <= 9 THEN (month - 7) * 30 + day
    ELSE (month - 10) * 30 + day

getSeasonProgress(solarDate) ==
    IF solarDate.isSolsticeDay
    THEN [daysIntoSeason |-> 0, seasonLength |-> SEASON_LENGTH,
          nearestMarker |-> "Summer Solstice", daysToMarker |-> 0, isPast |-> FALSE]
    ELSE LET month     == solarDate.month
             day       == solarDate.day
             dayOfYear == (month - 1) * 30 + day
             nearest   == SummerSolsticeCheck(NearestInYear(dayOfYear), dayOfYear)
         IN  [daysIntoSeason |-> DaysIntoSeason(month, day),
              seasonLength |-> SEASON_LENGTH,
              nearestMarker |-> nearest.nearestMarker,
              daysToMarker |-> Abs(nearest.daysToMarker),
              isPast |-> nearest.isPast]

----------------------------------------------------------------------------
(* Inputs *)

GregorianDates == [day : DayOffsets, hour : Hours]

\* The inputs solarToGregorian accepts without complaint: a month of 0 is the
\* Solstice sentinel (and, without isSolsticeDay, is read as month 1); a
\* Solstice day 6 is accepted whatever the year.
SolarInputs ==
    [year : Years, month : 0 .. 12, day : 1 .. 30, isSolsticeDay : {FALSE}]
    \cup [year : Years, month : {0}, day : 1 .. 6, isSolsticeDay : {TRUE}]

\* Structurally valid input: month 1..12 with day 1..30, or a Solstice day
\* that the year has
\* SolarDate values built by hand for isSameSolarDay: the derived fields
\* dayOfWeek and dayOfYear take values of their own
ComparedSolarDates ==
    [year : {-1, 0}, month : {1, 2, 12}, day : {1, 2, 30}, dayOfWeek : {0, 3},
     dayOfYear : {1, 200}, isSolsticeDay : {FALSE}, isLeapYear : {FALSE}]
    \cup [year : {-1, 0}, month : {0}, day : {1, 2}, dayOfWeek : {NULL},
          dayOfYear : {361, 362}, isSolsticeDay : {TRUE}, solsticeDay : {1, 2, 6},
          isLeapYear : {FALSE}]

ValidSolarInput(s) ==
    IF s.isSolsticeDay
    THEN s.day \in 1 .. solsticeDaysCount(s.year)
    ELSE s.month \in 1 .. 12 /\ s.day \in 1 .. 30

----------------------------------------------------------------------------
(* The calls of the engine *)

\* The parts of the state a specification does not use stay as they are here
WalkIdle == pc = "idle" /\ locals = NULL

AppIdle == now = NULL /\ viewMonth = NULL /\ viewYear = NULL /\ viewMode = "none"

BotIdle == settings = << >> /\ runs = << >> /\ removed = {}

ConverterIdle == converter = [mode |-> "none"]

BirthdaysIdle == birthdays = {}

Init ==
    /\ tz \in TimeZones
    /\ op = "none"
    /\ arg = NULL
    /\ ret = NULL
    /\ WalkIdle
    /\ AppIdle
    /\ BotIdle
    /\ BirthdaysIdle
    /\ ConverterIdle

CallIsSolarLeapYear ==
    /\ op = "none"
    /\ \E y \in Years :
        /\ op' = "isSolarLeapYear"
        /\ arg' = y
        /\ ret' = isSolarLeapYear(y)
    /\ UNCHANGED <<tz, walkVars, appVars, botVars, birthdays, converter>>

CallGregorianToSolar ==
    /\ op = "none"
    /\ \E d \in GregorianDates :
        /\ op' = "gregorianToSolar"
        /\ arg' = d
        /\ ret' = gregorianToSolar(tz, d)
    /\ UNCHANGED <<tz, walkVars, appVars, botVars, birthdays, converter>>

CallSolarToGregorian ==
    /\ op = "none"
    /\ \E s \in SolarInputs :
        /\ op' = "solarToGregorian"
        /\ arg' = s
        /\ ret' = solarToGregorian(s)
    /\ UNCHANGED <<tz, walkVars, appVars, botVars, birthdays, converter>>

CallGetMonthDays ==
    /\ op = "none"
    /\ \E y \in Years, m \in 1 .. 12 :
        /\ op' = "getMonthDays"
        /\ arg' = [year |-> y, month |-> m]
        /\ ret' = getMonthDays(y, m)
    /\ UNCHANGED <<tz, walkVars, appVars, botVars, birthdays, converter>>

CallGetSolsticeDays ==
    /\ op = "none"
    /\ \E y \in Years :
        /\ op' = "getSolsticeDays"
        /\ arg' = y
        /\ ret' = getSolsticeDays(y)
    /\ UNCHANGED <<tz, walkVars, appVars, botVars, birthdays, converter>>

\* DateConverter's effect in Solar-to-Gregorian mode (DateConverter.tsx,
\* lines 39-48): the input is converted and the result converted back
CallIsSameSolarDay ==
    /\ op = "none"
    /\ \E a \in ComparedSolarDates, b \in ComparedSolarDates :
        /\ op' = "isSameSolarDay"
        /\ arg' = [a |-> a, b |-> b]
        /\ ret' = isSameSolarDay(a, b)
    /\ UNCHANGED <<tz, walkVars, appVars, botVars, birthdays, converter>>

\* the bot's gregorianToSolar (createCalendarEmbed, build7DayView)
CallBotGregorianToSolar ==
    /\ op = "none"
    /\ \E d \in GregorianDates :
        /\ op' = "bot.gregorianToSolar"
        /\ arg' = d
        /\ ret' = botGregorianToSolar(tz, d)
    /\ UNCHANGED <<tz, walkVars, appVars, botVars, birthdays, converter>>

\* createCalendarEmbed, line 609: the season display of a solar date
CallGetSeasonProgress ==
    /\ op = "none"
    /\ \E y \in Years :
        \E s \in {getMonthDays(y, m)[d] : m \in 1 .. 12, d \in 1 .. 30}
                 \cup {getSolsticeDays(y)[i] : i \in 1 .. solsticeDaysCount(y)} :
            /\ op' = "getSeasonProgress"
            /\ arg' = s
            /\ ret' = getSeasonProgress(s)
    /\ UNCHANGED <<tz, walkVars, appVars, botVars, birthdays, converter>>

\* solarToGregorian of Month 1 (July), Day 1 of a year, read as a Gregorian
\* calendar date
CallSolarToGregorianYearStart ==
    /\ op = "none"
    /\ \E y \in -MaxAlignYear .. MaxAlignYear :
        LET gregorian == solarToGregorian([year |-> y, month |-> 1, day |-> 1,
                                           isSolsticeDay |-> FALSE])
        IN  /\ op' = "yearStart"
            /\ arg' = y
            /\ ret' = CivilDate(gregorian)
    /\ UNCHANGED <<tz, walkVars, appVars, botVars, birthdays, converter>>

DateConverterSolarEffect ==
    /\ op = "none"
    /\ \E s \in SolarInputs :
        /\ s.isSolsticeDay \/ s.month # 0
        /\ LET gregorian == solarToGregorian(s)
               solar     == gregorianToSolar(tz, gregorian)
           IN  /\ op' = "DateConverter"
               /\ arg' = s
               /\ ret' = [solar |-> solar, gregorian |-> gregorian]
    /\ UNCHANGED <<tz, walkVars, appVars, botVars, birthdays, converter>>

Next ==
    \/ CallIsSolarLeapYear
    \/ CallGregorianToSolar
    \/ CallSolarToGregorian
    \/ CallGetMonthDays
    \/ CallGetSolsticeDays
    \/ CallIsSameSolarDay
    \/ CallSolarToGregorianYearStart
    \/ CallBotGregorianToSolar
    \/ CallGetSeasonProgress
    \/ DateConverterSolarEffect

Spec == Init /\ [][Next]_vars

----------------------------------------------------------------------------
(* The conversions step by step: one action per iteration of a loop *)

\* what `ret` holds while a call has not returned
NoResult == [returned |-> FALSE]

\* before the first call: no argument, no locals and no result yet
InitWalk ==
    /\ tz \in TimeZones
    /\ op = "none"
    /\ arg = NoResult
    /\ ret = NoResult
    /\ pc = "idle"
    /\ locals = NoResult
    /\ AppIdle
    /\ BotIdle
    /\ BirthdaysIdle
    /\ ConverterIdle

\* gregorianToSolar, lines 86-99 and 105-108: up to the first loop test
BeginGregorianToSolar ==
    /\ pc = "idle"
    /\ \E d \in GregorianDates :
        LET days == daysSinceEpoch(tz, d)
        IN  /\ op' = "gregorianToSolar"
            /\ arg' = d
            /\ locals' = [year |-> IF days >= 0 THEN 0 ELSE -1, remainingDays |-> days]
            /\ pc' = IF days >= 0 THEN "forward" ELSE "backward"
            /\ ret' = NoResult
    /\ UNCHANGED <<tz, appVars, botVars, birthdays, converter>>

ForwardStep_StartsOver ==
    /\ pc = "forward"
    /\ IF locals.remainingDays >= daysInSolarYear(locals.year)
       THEN /\ locals' = [year |-> locals.year + 1,
                          remainingDays |-> locals.remainingDays - daysInSolarYear(locals.year)]
            /\ UNCHANGED pc
       ELSE /\ locals' = [year |-> 0, remainingDays |-> daysSinceEpoch(tz, arg)]
            /\ UNCHANGED pc
    /\ UNCHANGED <<tz, op, arg, ret, appVars, botVars, birthdays, converter>>

\* lines 101-104: one test of the forward loop and, if it holds, its body
ForwardStep ==
    /\ pc = "forward"
    /\ IF locals.remainingDays >= daysInSolarYear(locals.year)
       THEN /\ locals' = [year |-> locals.year + 1,
                          remainingDays |-> locals.remainingDays - daysInSolarYear(locals.year)]
            /\ UNCHANGED pc
       ELSE pc' = "result" /\ UNCHANGED locals
    /\ UNCHANGED <<tz, op, arg, ret, appVars, botVars, birthdays, converter>>

\* lines 109-114: one test of the backward loop and, if it holds, its body
BackwardStep ==
    /\ pc = "backward"
    /\ IF locals.remainingDays < 0
       THEN LET added == locals.remainingDays + daysInSolarYear(locals.year)
            IN  /\ locals' = [year |-> IF added < 0 THEN locals.year - 1 ELSE locals.year,
                              remainingDays |-> added]
                /\ UNCHANGED pc
       ELSE pc' = "result" /\ UNCHANGED locals
    /\ UNCHANGED <<tz, op, arg, ret, appVars, botVars, birthdays, converter>>

\* lines 117-150: the SolarDate is built and returned
ReturnSolarDate ==
    /\ pc = "result"
    /\ LET year       == locals.year
           dayOfYear  == locals.remainingDays + 1
           isLeapYear == isSolarLeapYear(year)
       IN  ret' = IF dayOfYear > 360
                  THEN SolsticeResult(year, dayOfYear, isLeapYear)
                  ELSE RegularResult(year, dayOfYear, isLeapYear)
    /\ pc' = "done"
    /\ UNCHANGED <<tz, op, arg, locals, appVars, botVars, birthdays, converter>>

\* solarToGregorian, lines 162-166 and 170: up to the first loop test
BeginSolarToGregorian ==
    /\ pc = "idle"
    /\ \E s \in SolarInputs :
        /\ op' = "solarToGregorian"
        /\ arg' = s
        /\ locals' = [y |-> IF s.year >= 0 THEN 0 ELSE -1, totalDays |-> 0]
        /\ pc' = IF s.year >= 0 THEN "sumForward" ELSE "sumBackward"
        /\ ret' = NoResult
    /\ UNCHANGED <<tz, appVars, botVars, birthdays, converter>>

\* lines 166-168
SumForwardStep ==
    /\ pc = "sumForward"
    /\ IF locals.y < arg.year
       THEN /\ locals' = [y |-> locals.y + 1,
                          totalDays |-> locals.totalDays + daysInSolarYear(locals.y)]
            /\ UNCHANGED pc
       ELSE pc' = "offset" /\ UNCHANGED locals
    /\ UNCHANGED <<tz, op, arg, ret, appVars, botVars, birthdays, converter>>

SumBackwardStep_ExcludesYear ==
    /\ pc = "sumBackward"
    /\ IF locals.y > arg.year
       THEN /\ locals' = [y |-> locals.y - 1,
                          totalDays |-> locals.totalDays - daysInSolarYear(locals.y)]
            /\ UNCHANGED pc
       ELSE pc' = "offset" /\ UNCHANGED locals
    /\ UNCHANGED <<tz, op, arg, ret, appVars, botVars, birthdays, converter>>

\* lines 170-172
SumBackwardStep ==
    /\ pc = "sumBackward"
    /\ IF locals.y >= arg.year
       THEN /\ locals' = [y |-> locals.y - 1,
                          totalDays |-> locals.totalDays - daysInSolarYear(locals.y)]
            /\ UNCHANGED pc
       ELSE pc' = "offset" /\ UNCHANGED locals
    /\ UNCHANGED <<tz, op, arg, ret, appVars, botVars, birthdays, converter>>

\* lines 175-189: the offset within the year is added and the Date returned
ReturnDate ==
    /\ pc = "offset"
    /\ ret' = AddDays(EPOCH_GREGORIAN, locals.totalDays + DaysWithinYear(arg) - 1)
    /\ pc' = "done"
    /\ UNCHANGED <<tz, op, arg, locals, appVars, botVars, birthdays, converter>>

WalkStep ==
    \/ ForwardStep
    \/ BackwardStep
    \/ ReturnSolarDate
    \/ SumForwardStep
    \/ SumBackwardStep
    \/ ReturnDate

NextWalk ==
    \/ BeginGregorianToSolar
    \/ BeginSolarToGregorian
    \/ WalkStep

\* A call that has begun runs on: nothing else runs on the thread meanwhile
SpecWalk == InitWalk /\ [][NextWalk]_vars /\ WF_vars(WalkStep)

----------------------------------------------------------------------------
(* Properties *)

\* C1: round trip. For every Gregorian calendar date d,
\* solarToGregorian(gregorianToSolar(d)) is the calendar date d again.
\* Violated where the local clock is ahead of the epoch's: the elapsed time
\* to the date's local midnight is one hour short of a whole number of days
\* and Math.floor takes the day before.
C1_RoundTrip ==
    op = "gregorianToSolar" => solarToGregorian(ret).day = arg.day

\* C2: inverse in the other direction. For every structurally valid solar
\* input s, gregorianToSolar(solarToGregorian(s)) has the year, the month
\* (0 for a Solstice day), the day and the isSolsticeDay of s.
C2_InverseOfValidInput ==
    (op = "DateConverter" /\ ValidSolarInput(arg)) =>
        /\ ret.solar.year = arg.year
        /\ ret.solar.month = arg.month
        /\ ret.solar.day = arg.day
        /\ ret.solar.isSolsticeDay = arg.isSolsticeDay

\* C3: isSolarLeapYear(y) is true exactly when y is a multiple of 4, for
\* negative y too, and so has period 4.
C3_LeapYearsAreMultiplesOfFour ==
    op = "isSolarLeapYear" =>
        /\ ret = (\E k \in -(MaxYear + 1) .. (MaxYear + 1) : arg = 4 * k)
        /\ isSolarLeapYear(arg + 4) = ret
        /\ isSolarLeapYear(arg - 4) = ret

C3_Witness ==
    op = "isSolarLeapYear" /\ arg = -4 /\ ret = TRUE

\* C4: the dayOfYear that gregorianToSolar returns is between 1 and
\* daysInSolarYear(year); 366 occurs only in a leap year and is Solstice day
\* 6, and 361 is Solstice day 1.
C4_DayOfYearInRange ==
    op = "gregorianToSolar" =>
        /\ 1 <= ret.dayOfYear
        /\ ret.dayOfYear <= (IF ret.year % 4 = 0 THEN 366 ELSE 365)
        /\ ret.dayOfYear = 366 => (ret.year % 4 = 0 /\ ret.solsticeDay = 6)
        /\ ret.dayOfYear = 361 => ret.solsticeDay = 1

C4_Witness ==
    /\ op = "gregorianToSolar"
    /\ ret.dayOfYear = 366
    /\ ret.year = -4
    /\ ret.solsticeDay = 6

\* C5: the epoch date converts to year 0, month 1, day 1, dayOfWeek 0,
\* dayOfYear 1, not a Solstice day.
C5_EpochIsYearZeroDayOne ==
    (op = "gregorianToSolar" /\ arg.day = 0) =>
        /\ ret.year = 0
        /\ ret.month = 1
        /\ ret.day = 1
        /\ ret.dayOfWeek = 0
        /\ ret.dayOfYear = 1
        /\ ret.isSolsticeDay = FALSE

C5_Witness ==
    op = "gregorianToSolar" /\ arg = [day |-> 0, hour |-> 12] /\ ret.dayOfYear = 1

\* C6: the date one day before the epoch converts to the last Solstice day
\* of year -1.
C6_DayBeforeEpoch ==
    (op = "gregorianToSolar" /\ arg.day = -1) =>
        /\ ret.year = -1
        /\ ret.isSolsticeDay = TRUE
        /\ ret.solsticeDay = 5
        /\ ret.dayOfYear = 365
        /\ ret.solsticeDay = solsticeDaysCount(-1)
        /\ ret.dayOfYear = daysInSolarYear(-1)

C6_Witness ==
    op = "gregorianToSolar" /\ arg.day = -1 /\ ret.year = -1 /\ ret.isSolsticeDay

\* C7: a result with dayOfYear <= 360 is a regular day: its month is
\* ceil(dayOfYear / 30), in 1..12, its day is ((dayOfYear - 1) mod 30) + 1, in
\* 1..30, and its dayOfWeek is (day - 1) mod 6, in 0..5.
C7_RegularDay ==
    (op = "gregorianToSolar" /\ ret.dayOfYear <= 360) =>
        /\ ret.month \in 1 .. 12
        /\ 30 * (ret.month - 1) < ret.dayOfYear
        /\ ret.dayOfYear <= 30 * ret.month
        /\ ret.day \in 1 .. 30
        /\ ret.day = ret.dayOfYear - 30 * (ret.month - 1)
        /\ ret.dayOfWeek \in 0 .. 5
        /\ (ret.day - 1 - ret.dayOfWeek) % 6 = 0
        /\ ret.isSolsticeDay = FALSE

C7_Witness ==
    /\ op = "gregorianToSolar"
    /\ ret.dayOfYear = 360
    /\ ret.month = 12
    /\ ret.day = 30
    /\ ret.dayOfWeek = 5
    /\ ret.year < 0

\* C8: a result with dayOfYear > 360 is a Solstice day: month 0,
\* solsticeDay = day = dayOfYear - 360, no dayOfWeek.
C8_SolsticeDay ==
    (op = "gregorianToSolar" /\ ret.dayOfYear > 360) =>
        /\ ret.month = 0
        /\ ret.solsticeDay + 360 = ret.dayOfYear
        /\ ret.day = ret.solsticeDay
        /\ ret.dayOfWeek = NULL
        /\ ret.isSolsticeDay = TRUE

C8_Witness ==
    /\ op = "gregorianToSolar"
    /\ ret.dayOfYear = 363
    /\ ret.solsticeDay = 3
    /\ ret.year = 2

\* C9: Solstice exclusivity. In every SolarDate that gregorianToSolar,
\* getMonthDays or getSolsticeDays produces, dayOfWeek is null exactly when
\* isSolsticeDay is true, and solsticeDay is present exactly then.
Exclusive(solarDate) ==
    /\ (solarDate.dayOfWeek = NULL) <=> solarDate.isSolsticeDay
    /\ ("solsticeDay" \in DOMAIN solarDate) <=> solarDate.isSolsticeDay

C9_SolsticeExclusivity ==
    /\ op = "gregorianToSolar" => Exclusive(ret)
    /\ op \in {"getMonthDays", "getSolsticeDays"} =>
          \A i \in DOMAIN ret : Exclusive(ret[i])

C9_Witness ==
    /\ op = "getSolsticeDays"
    /\ Len(ret) = 6
    /\ ret[6].dayOfWeek = NULL
    /\ ret[6].isSolsticeDay

\* C10: getMonthDays(y, m) returns 30 entries with the days 1, 2, ..., 30 in
\* this order, each of year y and month m, with
\* dayOfYear = (m - 1) * 30 + day and dayOfWeek = (day - 1) mod 6.
C10_MonthCoverage ==
    op = "getMonthDays" =>
        /\ DOMAIN ret = 1 .. 30
        /\ \A i \in 1 .. 30 :
              /\ ret[i].day = i
              /\ ret[i].year = arg.year
              /\ ret[i].month = arg.month
              /\ ret[i].dayOfYear = (arg.month - 1) * 30 + i
              /\ ret[i].dayOfWeek = (i - 1) % 6

C10_Witness ==
    /\ op = "getMonthDays"
    /\ arg = [year |-> -3, month |-> 12]
    /\ ret[30].dayOfYear = 360
    /\ ret[30].dayOfWeek = 5

\* C11: getSolsticeDays(y) returns 6 entries when y is a leap year and 5
\* otherwise, with the solsticeDay values 1, 2, ... in this order and
\* dayOfYear = 360 + solsticeDay.
C11_SolsticeCoverage ==
    op = "getSolsticeDays" =>
        /\ Len(ret) = (IF arg % 4 = 0 THEN 6 ELSE 5)
        /\ \A i \in 1 .. Len(ret) :
              /\ ret[i].solsticeDay = i
              /\ ret[i].dayOfYear = 360 + ret[i].solsticeDay
              /\ ret[i].year = arg

C11_Witness ==
    /\ op = "getSolsticeDays"
    /\ arg = 4
    /\ Len(ret) = 6
    /\ ret[6].dayOfYear = 366

\* C12: isSameSolarDay(a, b) is true exactly when both are Solstice days of
\* the same year with the same solsticeDay, or both are regular days with the
\* same year, month and day; dayOfWeek and dayOfYear play no part, and dates
\* of different years are never the same day.
C12_SameSolarDay ==
    op = "isSameSolarDay" =>
        ret = (\/ /\ arg.a.isSolsticeDay
                  /\ arg.b.isSolsticeDay
                  /\ arg.a.year = arg.b.year
                  /\ arg.a.solsticeDay = arg.b.solsticeDay
               \/ /\ ~arg.a.isSolsticeDay
                  /\ ~arg.b.isSolsticeDay
                  /\ arg.a.year = arg.b.year
                  /\ arg.a.month = arg.b.month
                  /\ arg.a.day = arg.b.day)

C12_Witness ==
    /\ op = "isSameSolarDay"
    /\ ret = TRUE
    /\ arg.a.dayOfWeek # arg.b.dayOfWeek
    /\ arg.a.dayOfYear # arg.b.dayOfYear

\* C13: perennial weekday. The dayOfWeek of a regular date depends on its day
\* of the month alone: it is the dayOfWeek of that day in month 1 of year 0,
\* whatever the year and the month; day 1 is Monday (0) and day 30 is Sunday
\* (5).
C13_PerennialWeekday ==
    (op = "gregorianToSolar" /\ ~ret.isSolsticeDay) =>
        /\ ret.dayOfWeek =
              gregorianToSolar("noDst", [day |-> ret.day - 1, hour |-> 0]).dayOfWeek
        /\ ret.day = 1 => ret.dayOfWeek = 0
        /\ ret.day = 30 => ret.dayOfWeek = 5

C13_Witness ==
    /\ op = "gregorianToSolar"
    /\ ret.year = -5
    /\ ret.month = 7
    /\ ret.day = 30
    /\ ret.dayOfWeek = 5

\* C14: totality. Every call of gregorianToSolar, for a day offset of either
\* sign, and every call of solarToGregorian leaves its year loop and returns:
\* a SolarDate with a dayOfYear of its year, or a Date.
Returned ==
    /\ pc = "done"
    /\ op = "gregorianToSolar" =>
          /\ ret.dayOfYear \in 1 .. daysInSolarYear(ret.year)
          /\ ret = gregorianToSolar(tz, arg)
    /\ op = "solarToGregorian" =>
          /\ ret.hour = 0
          /\ ret = solarToGregorian(arg)

C14_Totality == (pc # "idle") ~> Returned

C14_Witness ==
    /\ pc = "done"
    /\ op = "gregorianToSolar"
    /\ ret.year = -5
    /\ locals.remainingDays = 364

\* C15: Gregorian alignment. Month 1 (July), Day 1 of every solar year Y
\* converts to June 24 of the Gregorian year 1999 + Y.
\* Violated from Y = 101 on and up to Y = -100: the solar leap rule has no
\* century exception, the Gregorian years 2100 and 1900 are no leap years.
C15_YearStartIsJune24 ==
    op = "yearStart" => ret = [year |-> 1999 + arg, month |-> 5, date |-> 24]

\* C15, amended: for -99 <= Y <= 100 (Gregorian 1900 to 2099), Month 1 Day 1
\* of solar year Y converts to June 24 of the Gregorian year 1999 + Y.
C15_YearStartIsJune24Until2099 ==
    (op = "yearStart" /\ arg \in -99 .. 100) =>
        ret = [year |-> 1999 + arg, month |-> 5, date |-> 24]

C15_Witness ==
    /\ op = "yearStart"
    /\ arg = 100
    /\ ret = [year |-> 2099, month |-> 5, date |-> 24]

\* The sum of daysInSolarYear(y) over the years y of a finite set
RECURSIVE DaysOfYears(_)
DaysOfYears(years) ==
    IF years = {} THEN 0
    ELSE LET y == CHOOSE v \in years : TRUE
         IN  daysInSolarYear(y) + DaysOfYears(years \ {y})

\* C16: in solarToGregorian, before the offset within the year is added,
\* totalDays is the signed sum of the days of all years strictly between year
\* 0 and input.year.
\* Violated for input.year = 1: no year lies strictly between 0 and 1, and
\* totalDays is 366, the days of year 0.
C16_SumStrictlyBetween ==
    pc = "offset" =>
        locals.totalDays =
            IF arg.year >= 0
            THEN DaysOfYears({y \in Years : 0 < y /\ y < arg.year})
            ELSE -DaysOfYears({y \in Years : arg.year < y /\ y < 0})

\* C16, amended: totalDays is then the sum of the days of the years y with
\* 0 <= y < input.year when input.year >= 0, and minus the sum of the days of
\* the years y with input.year <= y <= -1 when input.year < 0.
C16_SumOfYearsPassed ==
    pc = "offset" =>
        locals.totalDays =
            IF arg.year >= 0
            THEN DaysOfYears({y \in Years : 0 <= y /\ y < arg.year})
            ELSE -DaysOfYears({y \in Years : arg.year <= y /\ y <= -1})

C16_Witness ==
    /\ pc = "offset"
    /\ arg.year = -5
    /\ locals.totalDays = -(4 * 365 + 366)

----------------------------------------------------------------------------
(* The App: which month, year and view are shown (App.tsx, Calendar.tsx,   *)
(* SolsticeDays and YearOverview).  `op` is the handler that ran last and  *)
(* `arg` the month, year and view it ran in.                               *)

ViewYears == -MaxViewYear .. MaxViewYear

AppDays == 357 .. (357 + MaxAppDays)

View == [month |-> viewMonth, year |-> viewYear, mode |-> viewMode]

InitApp_MonthAsConverted ==
    /\ tz \in TimeZones
    /\ now \in [day : AppDays, hour : {12}]
    /\ LET solarDate == gregorianToSolar(tz, now)
       IN  /\ viewMonth = solarDate.month
           /\ viewYear = solarDate.year
           /\ viewMode = (IF solarDate.isSolsticeDay THEN "solstice" ELSE "calendar")
    /\ op = "mount"
    /\ arg = View
    /\ ret = NULL
    /\ WalkIdle
    /\ BotIdle
    /\ BirthdaysIdle
    /\ ConverterIdle

\* App.tsx, lines 15-19: the initial state
InitApp ==
    /\ tz \in TimeZones
    /\ now \in [day : AppDays, hour : {12}]
    /\ LET solarDate == gregorianToSolar(tz, now)
       IN  /\ viewMonth = (IF solarDate.month = 0 THEN 1 ELSE solarDate.month)
           /\ viewYear = solarDate.year
           /\ viewMode = (IF solarDate.isSolsticeDay THEN "solstice" ELSE "calendar")
    /\ op = "mount"
    /\ arg = View
    /\ ret = NULL
    /\ WalkIdle
    /\ BotIdle
    /\ BirthdaysIdle
    /\ ConverterIdle

\* App.tsx, lines 21-29: the timer sets currentDate and solarDate
TimerTick ==
    /\ now.day < 357 + MaxAppDays
    /\ now' = [now EXCEPT !.day = @ + 1]
    /\ op' = "timer"
    /\ arg' = View
    /\ UNCHANGED <<tz, ret, viewMonth, viewYear, viewMode, walkVars, botVars, birthdays, converter>>

HandlePrevMonth_KeepsYear ==
    /\ viewMode = "calendar"
    /\ viewMonth' = (IF viewMonth = 1 THEN 12 ELSE viewMonth - 1)
    /\ viewMode' = "calendar"
    /\ op' = "handlePrevMonth"
    /\ arg' = View
    /\ UNCHANGED <<tz, ret, now, viewYear, walkVars, botVars, birthdays, converter>>

\* Calendar.tsx, lines 35-42, with handleYearChange and handleMonthChange
HandlePrevMonth ==
    /\ viewMode = "calendar"
    /\ viewMonth = 1 => viewYear - 1 \in ViewYears
    /\ IF viewMonth = 1
       THEN viewYear' = viewYear - 1 /\ viewMonth' = 12
       ELSE viewMonth' = viewMonth - 1 /\ UNCHANGED viewYear
    /\ viewMode' = "calendar"
    /\ op' = "handlePrevMonth"
    /\ arg' = View
    /\ UNCHANGED <<tz, ret, now, walkVars, botVars, birthdays, converter>>

HandleNextMonth_WrapsToNextYear ==
    /\ viewMode = "calendar"
    /\ viewMonth = 12 => viewYear + 1 \in ViewYears
    /\ IF viewMonth = 12
       THEN viewYear' = viewYear + 1 /\ viewMonth' = 1
       ELSE viewMonth' = viewMonth + 1 /\ UNCHANGED viewYear
    /\ viewMode' = "calendar"
    /\ op' = "handleNextMonth"
    /\ arg' = View
    /\ UNCHANGED <<tz, ret, now, walkVars, botVars, birthdays, converter>>

\* Calendar.tsx, lines 44-50, with handleShowSolstice and handleMonthChange
HandleNextMonth ==
    /\ viewMode = "calendar"
    /\ IF viewMonth = 12
       THEN viewMode' = "solstice" /\ UNCHANGED viewMonth
       ELSE viewMonth' = viewMonth + 1 /\ viewMode' = "calendar"
    /\ op' = "handleNextMonth"
    /\ arg' = View
    /\ UNCHANGED <<tz, ret, now, viewYear, walkVars, botVars, birthdays, converter>>

\* Calendar.tsx, line 81: the month select, with handleMonthChange
MonthSelect ==
    /\ viewMode = "calendar"
    /\ \E month \in 1 .. 12 :
        /\ viewMonth' = month
        /\ viewMode' = "calendar"
    /\ op' = "monthSelect"
    /\ arg' = View
    /\ UNCHANGED <<tz, ret, now, viewYear, walkVars, botVars, birthdays, converter>>

\* Calendar.tsx, lines 52-57: the year input, with handleYearChange
HandleYearInput ==
    /\ viewMode = "calendar"
    /\ \E value \in ViewYears : viewYear' = value
    /\ op' = "handleYearInput"
    /\ arg' = View
    /\ UNCHANGED <<tz, ret, now, viewMonth, viewMode, walkVars, botVars, birthdays, converter>>

\* Calendar.tsx, line 126: the Year button, with handleShowYearOverview
ShowYearOverview ==
    /\ viewMode = "calendar"
    /\ viewMode' = "year"
    /\ op' = "handleShowYearOverview"
    /\ arg' = View
    /\ UNCHANGED <<tz, ret, now, viewMonth, viewYear, walkVars, botVars, birthdays, converter>>

\* Calendar.tsx, line 170, and YearOverview, line 82: handleShowSolstice
ShowSolstice ==
    /\ viewMode \in {"calendar", "year"}
    /\ viewMode' = "solstice"
    /\ op' = "handleShowSolstice"
    /\ arg' = View
    /\ UNCHANGED <<tz, ret, now, viewMonth, viewYear, walkVars, botVars, birthdays, converter>>

\* SolsticeDays, line 35 (Back to Calendar), and YearOverview, line 38:
\* handleShowCalendar
ShowCalendar ==
    /\ viewMode \in {"solstice", "year"}
    /\ viewMode' = "calendar"
    /\ op' = "handleShowCalendar"
    /\ arg' = View
    /\ UNCHANGED <<tz, ret, now, viewMonth, viewYear, walkVars, botVars, birthdays, converter>>

\* SolsticeDays, lines 112-117: the button "June, Year {year}", with
\* handleShowCalendar
NavToJune ==
    /\ viewMode = "solstice"
    /\ viewMode' = "calendar"
    /\ op' = "navToJune"
    /\ arg' = View
    /\ UNCHANGED <<tz, ret, now, viewMonth, viewYear, walkVars, botVars, birthdays, converter>>

\* SolsticeDays, lines 118-123: the button "July, Year {nextYear}", with
\* handleShowCalendar
NavToJuly ==
    /\ viewMode = "solstice"
    /\ viewMode' = "calendar"
    /\ op' = "navToJuly"
    /\ arg' = View
    /\ UNCHANGED <<tz, ret, now, viewMonth, viewYear, walkVars, botVars, birthdays, converter>>

\* YearOverview, line 59: a click on a month, with handleMonthChange
MonthClick ==
    /\ viewMode = "year"
    /\ \E month \in 1 .. 12 : viewMonth' = month
    /\ viewMode' = "calendar"
    /\ op' = "monthClick"
    /\ arg' = View
    /\ UNCHANGED <<tz, ret, now, viewYear, walkVars, botVars, birthdays, converter>>

GoToToday_MonthAsConverted ==
    /\ LET today == gregorianToSolar(tz, now)
       IN  /\ viewMonth' = today.month
           /\ viewYear' = today.year
           /\ viewMode' = (IF today.isSolsticeDay THEN "solstice" ELSE "calendar")
    /\ op' = "goToToday"
    /\ arg' = View
    /\ UNCHANGED <<tz, ret, now, walkVars, botVars, birthdays, converter>>

\* App.tsx, lines 52-57
GoToToday ==
    /\ LET today == gregorianToSolar(tz, now)
       IN  /\ viewMonth' = (IF today.month = 0 THEN 1 ELSE today.month)
           /\ viewYear' = today.year
           /\ viewMode' = (IF today.isSolsticeDay THEN "solstice" ELSE "calendar")
    /\ op' = "goToToday"
    /\ arg' = View
    /\ UNCHANGED <<tz, ret, now, walkVars, botVars, birthdays, converter>>

NextApp ==
    \/ TimerTick
    \/ HandlePrevMonth
    \/ HandleNextMonth
    \/ MonthSelect
    \/ HandleYearInput
    \/ ShowYearOverview
    \/ ShowSolstice
    \/ ShowCalendar
    \/ NavToJune
    \/ NavToJuly
    \/ MonthClick
    \/ GoToToday

SpecApp == InitApp /\ [][NextApp]_vars

----------------------------------------------------------------------------
(* The bot: the server_settings table and the daily message                *)
(* (database functions and sendDailyMessages).  `settings` maps the        *)
(* guild_id of each row to its channel_id column, "NULL" for SQL NULL;     *)
(* `runs` holds the calls of sendDailyMessages that are in flight, each    *)
(* with the rows it still has to visit; `removed` is the set of guilds     *)
(* whose channel was removed and not set since.                            *)

Guilds == {"g1", "g2"}

Channels == {"c1", "c2"}

Outcomes == {"sent", "channelNotFound", "notTextBased", "error"}

\* server_settings: every table over Guilds
Tables ==
    UNION {[rows -> Channels \cup {"NULL"}] : rows \in SUBSET Guilds}

\* INSERT ... ON CONFLICT(guild_id) DO UPDATE SET channel_id = ...
setDailyChannel(table, guildId, channelId) ==
    [g \in DOMAIN table \cup {guildId} |->
        IF g = guildId THEN channelId ELSE table[g]]

removeDailyChannel_LeavesChannel(table, guildId) ==
    table

\* UPDATE ... SET channel_id = NULL WHERE guild_id = ?
removeDailyChannel(table, guildId) ==
    [g \in DOMAIN table |-> IF g = guildId THEN "NULL" ELSE table[g]]

\* the table after getServerSettings: a missing row is inserted with the
\* default columns, channel_id NULL
getServerSettings(table, guildId) ==
    [g \in DOMAIN table \cup {guildId} |->
        IF g \in DOMAIN table THEN table[g] ELSE "NULL"]

\* the table after setTimezone: the upsert writes the timezone column only
setTimezone(table, guildId) ==
    [g \in DOMAIN table \cup {guildId} |->
        IF g \in DOMAIN table THEN table[g] ELSE "NULL"]

\* SELECT * FROM server_settings WHERE channel_id IS NOT NULL
getAllConfiguredGuilds(table) ==
    {[guild_id |-> g, channel_id |-> table[g]] :
        g \in {h \in DOMAIN table : table[h] # "NULL"}}

\* the database file is kept across restarts: the bot starts on any table
InitBot ==
    /\ tz = "noDst"
    /\ op = "ready"
    /\ settings \in Tables
    /\ arg = [before |-> settings]
    /\ ret = NULL
    /\ runs = << >>
    /\ removed = {}
    /\ WalkIdle
    /\ AppIdle
    /\ BirthdaysIdle
    /\ ConverterIdle

\* /setchannel
HandleSetChannelCommand ==
    /\ \E guildId \in Guilds, channelId \in Channels :
        /\ settings' = setDailyChannel(settings, guildId, channelId)
        /\ removed' = removed \ {guildId}
        /\ arg' = [guild_id |-> guildId, channel_id |-> channelId, before |-> settings]
    /\ op' = "setDailyChannel"
    /\ UNCHANGED <<tz, ret, runs, walkVars, appVars, birthdays, converter>>

\* /removechannel
HandleRemoveChannelCommand ==
    /\ \E guildId \in Guilds :
        /\ settings' = removeDailyChannel(settings, guildId)
        /\ removed' = removed \cup {guildId}
        /\ arg' = [guild_id |-> guildId, before |-> settings]
    /\ op' = "removeDailyChannel"
    /\ UNCHANGED <<tz, ret, runs, walkVars, appVars, birthdays, converter>>

\* /settings
HandleSettingsCommand ==
    /\ \E guildId \in Guilds :
        /\ settings' = getServerSettings(settings, guildId)
        /\ arg' = [guild_id |-> guildId, before |-> settings]
    /\ op' = "getServerSettings"
    /\ UNCHANGED <<tz, ret, runs, removed, walkVars, appVars, birthdays, converter>>

SetTimezone ==
    /\ \E guildId \in Guilds :
        /\ settings' = setTimezone(settings, guildId)
        /\ arg' = [guild_id |-> guildId, before |-> settings]
    /\ op' = "setTimezone"
    /\ UNCHANGED <<tz, ret, runs, removed, walkVars, appVars, birthdays, converter>>

\* the cron trigger: sendDailyMessages up to its loop
CronTrigger ==
    /\ Len(runs) < MaxRuns
    /\ LET configuredGuilds == getAllConfiguredGuilds(settings)
           run == [configuredGuilds |-> configuredGuilds, removedAtTrigger |-> removed]
       IN  /\ runs' = (IF configuredGuilds = {} THEN runs ELSE Append(runs, run))
           /\ arg' = run
    /\ op' = "sendDailyMessages"
    /\ UNCHANGED <<tz, ret, settings, removed, walkVars, appVars, birthdays, converter>>

\* sendDailyMessages: one pass of its loop, whose awaits let commands and
\* other runs interleave; the call returns after the last row
SendStep ==
    /\ \E i \in 1 .. Len(runs) :
        \E row \in runs[i].configuredGuilds, outcome \in Outcomes :
            LET rest == runs[i].configuredGuilds \ {row}
            IN  /\ runs' = (IF rest = {}
                            THEN SubSeq(runs, 1, i - 1) \o SubSeq(runs, i + 1, Len(runs))
                            ELSE [runs EXCEPT ![i].configuredGuilds = rest])
                /\ op' = outcome
                /\ arg' = [guild_id |-> row.guild_id, channel_id |-> row.channel_id,
                           removedAtTrigger |-> runs[i].removedAtTrigger]
    /\ UNCHANGED <<tz, ret, settings, removed, walkVars, appVars, birthdays, converter>>

NextBot ==
    \/ HandleSetChannelCommand
    \/ HandleRemoveChannelCommand
    \/ HandleSettingsCommand
    \/ SetTimezone
    \/ CronTrigger
    \/ SendStep

SpecBot == InitBot /\ [][NextBot]_vars

----------------------------------------------------------------------------
(* The DateConverter (DateConverter.tsx): `converter` holds its useState    *)
(* values; gregorianInput is held as the calendar day it names.  Each       *)
(* handler is followed by the effect of lines 32-49, which converts the     *)
(* input of the mode and sets `result`.                                     *)

ConverterYears == -MaxConverterYear .. MaxConverterYear

\* the dates picked in the date input: the epoch date and a Solstice day
ConverterDays == {0, 361}

\* what is typed into the day input, as parseInt reads it (0 also standing
\* for NaN): values around the limits 1, 5, 6 and 30
DayInputs == {-1, 0, 1, 2, 5, 6, 7, 29, 30, 31}

Min(a, b) == IF a < b THEN a ELSE b

Max(a, b) == IF a > b THEN a ELSE b

\* line 61
maxSolsticeDays(c) == IF isSolarLeapYear(c.solarYear) THEN 6 ELSE 5

\* lines 40-45: the input of solarToGregorian
SolarInput(c) ==
    [year |-> c.solarYear,
     month |-> IF c.isSolsticeInput THEN 0 ELSE c.solarMonth,
     day |-> c.solarDay,
     isSolsticeDay |-> c.isSolsticeInput]

\* lines 32-49: the effect
Effect(zone, c) ==
    IF c.mode = "gregorian-to-solar"
    THEN LET date  == [day |-> c.gregorianInput, hour |-> 12]
             solar == gregorianToSolar(zone, date)
         IN  [c EXCEPT !.result = [solar |-> solar, gregorian |-> date]]
    ELSE LET gregorian == solarToGregorian(SolarInput(c))
             solar     == gregorianToSolar(zone, gregorian)
         IN  [c EXCEPT !.result = [solar |-> solar, gregorian |-> gregorian]]

\* lines 14-30: the initial state, and the effect after the first render
InitConverter ==
    /\ tz \in TimeZones
    /\ op = "mount"
    /\ arg = NULL
    /\ ret = NULL
    /\ \E today \in ConverterDays :
        converter = Effect(tz, [mode |-> "gregorian-to-solar", gregorianInput |-> today,
                                solarYear |-> 0, solarMonth |-> 1, solarDay |-> 1,
                                isSolsticeInput |-> FALSE, result |-> NULL])
    /\ WalkIdle
    /\ AppIdle
    /\ BotIdle
    /\ BirthdaysIdle

\* lines 68-79: the two mode buttons
SetMode ==
    /\ \E m \in {"gregorian-to-solar", "solar-to-gregorian"} :
        converter' = Effect(tz, [converter EXCEPT !.mode = m])
    /\ op' = "setMode"
    /\ UNCHANGED <<tz, arg, ret, walkVars, appVars, botVars, birthdays>>

\* line 91: the date input
SetGregorianInput ==
    /\ converter.mode = "gregorian-to-solar"
    /\ \E value \in ConverterDays :
        converter' = Effect(tz, [converter EXCEPT !.gregorianInput = value])
    /\ op' = "setGregorianInput"
    /\ UNCHANGED <<tz, arg, ret, walkVars, appVars, botVars, birthdays>>

\* lines 103-108: the Solstice Day checkbox
SolsticeCheckbox ==
    /\ converter.mode = "solar-to-gregorian"
    /\ LET checked == ~converter.isSolsticeInput
       IN  converter' = Effect(tz,
               [converter EXCEPT
                   !.isSolsticeInput = checked,
                   !.solarDay = IF checked
                                THEN Min(converter.solarDay, maxSolsticeDays(converter))
                                ELSE @])
    /\ op' = "solsticeCheckbox"
    /\ UNCHANGED <<tz, arg, ret, walkVars, appVars, botVars, birthdays>>

\* line 120: the month select, shown when isSolsticeInput is false
SetSolarMonth ==
    /\ converter.mode = "solar-to-gregorian"
    /\ ~converter.isSolsticeInput
    /\ \E value \in 1 .. 12 :
        converter' = Effect(tz, [converter EXCEPT !.solarMonth = value])
    /\ op' = "setSolarMonth"
    /\ UNCHANGED <<tz, arg, ret, walkVars, appVars, botVars, birthdays>>

\* lines 136-139: the day input
SetSolarDay ==
    /\ converter.mode = "solar-to-gregorian"
    /\ \E value \in DayInputs :
        LET parsed == IF value = 0 THEN 1 ELSE value
            limit  == IF converter.isSolsticeInput THEN maxSolsticeDays(converter) ELSE 30
        IN  converter' = Effect(tz, [converter EXCEPT !.solarDay = Max(1, Min(parsed, limit))])
    /\ op' = "setSolarDay"
    /\ UNCHANGED <<tz, arg, ret, walkVars, appVars, botVars, birthdays>>

\* line 148: the year input
SetSolarYear ==
    /\ converter.mode = "solar-to-gregorian"
    /\ \E value \in ConverterYears :
        converter' = Effect(tz, [converter EXCEPT !.solarYear = value])
    /\ op' = "setSolarYear"
    /\ UNCHANGED <<tz, arg, ret, walkVars, appVars, botVars, birthdays>>

NextConverter ==
    \/ SetMode
    \/ SetGregorianInput
    \/ SolsticeCheckbox
    \/ SetSolarMonth
    \/ SetSolarDay
    \/ SetSolarYear

SpecConverter == InitConverter /\ [][NextConverter]_vars

----------------------------------------------------------------------------
(* The bot's birthdays table (database, setBirthday and removeBirthday):    *)
(* `birthdays` is the set of its rows, without id and created_at.           *)

Users == {"u1", "u2"}

\* the names, months and days given to /addbirthday: a first birthday, the
\* same under a new display name, and another date
BirthdayInputs ==
    {[user_name |-> "Ann",   month |-> 1,  day |-> 1],
     [user_name |-> "Annie", month |-> 1,  day |-> 1],
     [user_name |-> "Ann",   month |-> 12, day |-> 30]}

\* the rows of a user in a guild
RowsOf(table, guildId, userId) ==
    {row \in table : row.guild_id = guildId /\ row.user_id = userId}

setBirthday_InsertsOnly(table, guildId, userId, userName, month, day) ==
    table \cup {[guild_id |-> guildId, user_id |-> userId, user_name |-> userName,
                 month |-> month, day |-> day]}

\* INSERT ... ON CONFLICT(guild_id, user_id) DO UPDATE SET user_name, month, day
setBirthday(table, guildId, userId, userName, month, day) ==
    IF RowsOf(table, guildId, userId) = {}
    THEN table \cup {[guild_id |-> guildId, user_id |-> userId, user_name |-> userName,
                      month |-> month, day |-> day]}
    ELSE {IF row \in RowsOf(table, guildId, userId)
          THEN [row EXCEPT !.user_name = userName, !.month = month, !.day = day]
          ELSE row : row \in table}

\* DELETE FROM birthdays WHERE guild_id = ? AND user_id = ?: the table after
\* it, and result.changes > 0
removeBirthday(table, guildId, userId) ==
    [table   |-> table \ RowsOf(table, guildId, userId),
     changed |-> Cardinality(RowsOf(table, guildId, userId)) > 0]

\* the database starts with an empty birthdays table
InitBirthdays ==
    /\ tz = "noDst"
    /\ op = "ready"
    /\ arg = [before |-> {}]
    /\ ret = FALSE
    /\ birthdays = {}
    /\ WalkIdle
    /\ AppIdle
    /\ BotIdle
    /\ ConverterIdle

\* /addbirthday
HandleAddBirthdayCommand ==
    /\ \E guildId \in Guilds, userId \in Users, input \in BirthdayInputs :
        /\ birthdays' = setBirthday(birthdays, guildId, userId,
                                    input.user_name, input.month, input.day)
        /\ arg' = [guild_id |-> guildId, user_id |-> userId, user_name |-> input.user_name,
                   month |-> input.month, day |-> input.day, before |-> birthdays]
    /\ op' = "setBirthday"
    /\ UNCHANGED <<tz, ret, walkVars, appVars, botVars, converter>>

\* /removebirthday
HandleRemoveBirthdayCommand ==
    /\ \E guildId \in Guilds, userId \in Users :
        LET removal == removeBirthday(birthdays, guildId, userId)
        IN  /\ birthdays' = removal.table
            /\ ret' = removal.changed
            /\ arg' = [guild_id |-> guildId, user_id |-> userId, before |-> birthdays]
    /\ op' = "removeBirthday"
    /\ UNCHANGED <<tz, walkVars, appVars, botVars, converter>>

NextBirthdays ==
    \/ HandleAddBirthdayCommand
    \/ HandleRemoveBirthdayCommand

SpecBirthdays == InitBirthdays /\ [][NextBirthdays]_vars

----------------------------------------------------------------------------
(* Properties of the App and of the bot *)

\* C17: previous-month navigation. In the calendar view showing month m of
\* year y, handlePrevMonth leads to month 12 of year y - 1 when m = 1 and to
\* month m - 1 of year y otherwise; the view stays the calendar view.
C17_PrevMonth ==
    (op = "handlePrevMonth" /\ arg.mode = "calendar") =>
        /\ viewMode = "calendar"
        /\ IF arg.month = 1
           THEN viewMonth = 12 /\ viewYear = arg.year - 1
           ELSE viewMonth = arg.month - 1 /\ viewYear = arg.year

C17_Witness ==
    /\ op = "handlePrevMonth"
    /\ arg = [month |-> 1, year |-> 0, mode |-> "calendar"]
    /\ viewMonth = 12
    /\ viewYear = -1
    /\ viewMode = "calendar"

\* C18: next-month navigation. In the calendar view showing month m of year
\* y, handleNextMonth switches to the Solstice Days view, with viewMonth and
\* viewYear unchanged, when m = 12; otherwise it shows month m + 1 of year y
\* in the calendar view.
C18_NextMonth ==
    (op = "handleNextMonth" /\ arg.mode = "calendar") =>
        /\ viewYear = arg.year
        /\ IF arg.month = 12
           THEN viewMode = "solstice" /\ viewMonth = 12
           ELSE viewMode = "calendar" /\ viewMonth = arg.month + 1

C18_Witness ==
    /\ op = "handleNextMonth"
    /\ arg = [month |-> 12, year |-> 2, mode |-> "calendar"]
    /\ viewMonth = 12
    /\ viewYear = 2
    /\ viewMode = "solstice"

\* C19: the Today button. From any month, year and view, goToToday sets
\* viewYear to today's solar year, viewMonth to today's solar month (1 on a
\* Solstice day), and viewMode to "solstice" on a Solstice day and to
\* "calendar" otherwise.
C19_GoToToday ==
    op = "goToToday" =>
        LET today == gregorianToSolar(tz, now)
        IN  /\ viewYear = today.year
            /\ viewMonth = (IF today.isSolsticeDay THEN 1 ELSE today.month)
            /\ viewMode = (IF today.isSolsticeDay THEN "solstice" ELSE "calendar")

C19_Witness ==
    /\ op = "goToToday"
    /\ arg = [month |-> 5, year |-> -2, mode |-> "year"]
    /\ gregorianToSolar(tz, now).isSolsticeDay
    /\ viewMonth = 1
    /\ viewYear = 0
    /\ viewMode = "solstice"

\* C20: after removeDailyChannel(g), and until setDailyChannel(g, c) is
\* called again, getAllConfiguredGuilds does not return g, and no call of
\* sendDailyMessages triggered in that time visits g or sends it a daily
\* message; removeDailyChannel(g) leaves the rows of the other guilds as
\* they were.
C20_RemovedGuildGetsNoDailyMessage ==
    /\ \A g \in removed :
        \A row \in getAllConfiguredGuilds(settings) : row.guild_id # g
    /\ \A i \in 1 .. Len(runs) :
        \A row \in runs[i].configuredGuilds :
            row.guild_id \notin runs[i].removedAtTrigger
    /\ op = "sendDailyMessages" =>
        \A row \in arg.configuredGuilds : row.guild_id \notin removed
    /\ op = "sent" => arg.guild_id \notin arg.removedAtTrigger
    /\ op = "removeDailyChannel" =>
        /\ DOMAIN settings = DOMAIN arg.before
        /\ \A g \in DOMAIN settings \ {arg.guild_id} : settings[g] = arg.before[g]

C20_Witness ==
    /\ op = "sent"
    /\ arg.guild_id = "g2"
    /\ arg.removedAtTrigger = {"g1"}
    /\ removed = {"g1"}
    /\ settings = [g \in Guilds |-> IF g = "g1" THEN "NULL" ELSE "c2"]

\* C21: daysSinceEpoch, as gregorianToSolar computes it, is the number of
\* calendar days from the epoch date to the input's local calendar date,
\* also where daylight saving time shifts the input's local midnight by an
\* hour against the epoch's.
\* Violated where the local clock is ahead of the epoch's: 24 * N - 1 hours
\* have elapsed and Math.floor gives N - 1.
C21_DaysSinceEpochAreCalendarDays ==
    op = "gregorianToSolar" => daysSinceEpoch(tz, arg) = arg.day

\* C22: solarToGregorian validates nothing. For an input out of range it
\* returns the Date that plain day arithmetic gives: Solstice day 6 of a year
\* Y that is no leap year gives the Gregorian date of Month 1, Day 1 of year
\* Y + 1, and a regular input whose month is 0 (or omitted) is read as
\* month 1.
C22_NoValidation ==
    op = "solarToGregorian" =>
        /\ ret.hour = 0
        /\ (arg.isSolsticeDay /\ arg.day = 6 /\ ~isSolarLeapYear(arg.year)) =>
              ret = solarToGregorian([year |-> arg.year + 1, month |-> 1, day |-> 1,
                                      isSolsticeDay |-> FALSE])
        /\ (~arg.isSolsticeDay /\ arg.month = 0) =>
              ret = solarToGregorian([arg EXCEPT !.month = 1])

C22_Witness ==
    /\ op = "solarToGregorian"
    /\ arg = [year |-> 1, month |-> 0, day |-> 6, isSolsticeDay |-> TRUE]
    /\ ret = [day |-> 731, hour |-> 0]

\* C23: in the Solstice Days view of year Y, the button "July, Year Y + 1"
\* shows the calendar of month 1 of year Y + 1 and the button "June, Year Y"
\* the calendar of month 12 of year Y, whatever month was shown before.
\* Violated: both buttons call handleShowCalendar, which sets viewMode only.
C23_SolsticeNavigation ==
    /\ op = "navToJuly" =>
        viewMode = "calendar" /\ viewMonth = 1 /\ viewYear = arg.year + 1
    /\ op = "navToJune" =>
        viewMode = "calendar" /\ viewMonth = 12 /\ viewYear = arg.year

\* C24: for every regular solar date, getSeasonProgress reports the closest
\* of the markers Fall Equinox (day 90), Winter Solstice (180), Spring
\* Equinox (270) and Summer Solstice (360, and the previous year's, day 0):
\* daysToMarker is at most 45, the first days of Month 1 report the Summer
\* Solstice as a past marker, and daysIntoSeason is in 1 .. 90.
\* Violated: the check "from previous year perspective" measures to day 360
\* again, so Month 1 Day 1 reports 89 days to the Fall Equinox.
C24_NearestMarker ==
    (op = "getSeasonProgress" /\ ~arg.isSolsticeDay) =>
        LET distances == {Abs(p - arg.dayOfYear) : p \in {0, 90, 180, 270, 360}}
        IN  /\ ret.daysToMarker \in distances
            /\ \A d \in distances : ret.daysToMarker <= d
            /\ ret.daysToMarker <= 45
            /\ arg.dayOfYear < 45 => (ret.nearestMarker = "Summer Solstice" /\ ret.isPast)
            /\ ret.daysIntoSeason \in 1 .. 90

C26_ViewMonthInRange ==
    viewMonth \in 1 .. 12

C26_Witness ==
    /\ op = "handleShowCalendar"
    /\ arg.mode = "solstice"
    /\ gregorianToSolar(tz, now).month = 0
    /\ viewMode = "calendar"
    /\ viewMonth = 1

\* C27: in every state of the DateConverter in Solar-to-Gregorian mode,
\* after any year edits, day edits, month selections and checkbox toggles,
\* the input handed to solarToGregorian is structurally valid: month in
\* 1 .. 12 and day in 1 .. 30 without the Solstice checkbox; with it, day in
\* 1 .. 5, or 1 .. 6 if solarYear is a leap year.
\* Violated: an edit of the year does not clamp the day again.
C27_ConverterInputValid ==
    converter.mode = "solar-to-gregorian" =>
        LET input == SolarInput(converter)
        IN  IF input.isSolsticeDay
            THEN input.day \in 1 .. (IF isSolarLeapYear(input.year) THEN 6 ELSE 5)
            ELSE input.month \in 1 .. 12 /\ input.day \in 1 .. 30

\* C28: the bot's copy of gregorianToSolar, isSolarLeapYear and
\* daysInSolarYear returns what the frontend's copy returns, in all fields,
\* for every input date on either side of the epoch.
C28_BotCopyAgrees ==
    op = "bot.gregorianToSolar" =>
        /\ ret = gregorianToSolar(tz, arg)
        /\ botIsSolarLeapYear(ret.year) = isSolarLeapYear(ret.year)
        /\ botDaysInSolarYear(ret.year) = daysInSolarYear(ret.year)

C28_Witness ==
    /\ op = "bot.gregorianToSolar"
    /\ arg = [day |-> -366, hour |-> 23]
    /\ ret.year = -2
    /\ ret.solsticeDay = 5
    /\ ret = gregorianToSolar(tz, arg)

\* C29: the enumerations agree with the conversions. Every entry e of
\* getMonthDays(y, m), m in 1 .. 12, and of getSolsticeDays(y) is
\* gregorianToSolar(solarToGregorian(e)) in all fields, and its isLeapYear is
\* true exactly if the year has 6 Solstice days.
\* Violated where the local clock is ahead of the epoch's: the conversion
\* back gives the day before.
C29_EnumerationsAgree ==
    /\ op = "getMonthDays" =>
        \A d \in 1 .. 30 :
            /\ gregorianToSolar(tz, solarToGregorian(ret[d])) = ret[d]
            /\ ret[d].isLeapYear = (Len(getSolsticeDays(arg.year)) = 6)
    /\ op = "getSolsticeDays" =>
        \A i \in 1 .. Len(ret) :
            /\ gregorianToSolar(tz, solarToGregorian(ret[i])) = ret[i]
            /\ ret[i].isLeapYear = (Len(ret) = 6)

\* C30: after any setBirthday and removeBirthday calls the table holds at
\* most one birthday for a user in a guild, with the name, month and day set
\* last; removeBirthday returns true exactly if that user had a birthday in
\* that guild, removes that one only, and both calls leave the birthdays of
\* every other user and guild as they were.
C30_OneBirthdayPerUser ==
    /\ \A g \in Guilds, u \in Users : Cardinality(RowsOf(birthdays, g, u)) <= 1
    /\ op = "setBirthday" =>
        /\ RowsOf(birthdays, arg.guild_id, arg.user_id) =
              {[guild_id |-> arg.guild_id, user_id |-> arg.user_id,
                user_name |-> arg.user_name, month |-> arg.month, day |-> arg.day]}
        /\ birthdays \ RowsOf(birthdays, arg.guild_id, arg.user_id) =
              arg.before \ RowsOf(arg.before, arg.guild_id, arg.user_id)
    /\ op = "removeBirthday" =>
        /\ ret = (RowsOf(arg.before, arg.guild_id, arg.user_id) # {})
        /\ RowsOf(birthdays, arg.guild_id, arg.user_id) = {}
        /\ birthdays = arg.before \ RowsOf(arg.before, arg.guild_id, arg.user_id)

C30_Witness ==
    /\ op = "removeBirthday"
    /\ ret = TRUE
    /\ arg.guild_id = "g1"
    /\ arg.user_id = "u1"
    /\ Cardinality(arg.before) = 4
    /\ Cardinality(birthdays) = 3
    /\ RowsOf(birthdays, "g2", "u1") # {}

====
